---- MODULE Spec2Model ----
(***************************************************************************)
(* Model of lib/oven.py: the Oven control loop (Oven.run), its commands    *)
(* (reset, run_profile, abort_run), the heater actuator (set_heat), the    *)
(* PID controller, the Profile interpolator and the real sensor's refresh  *)
(* loop (TempSensorReal.run).  run_profile is modelled as one step for the *)
(* operator's view and statement by statement for its race with the        *)
(* control loop; get_state is modelled entry by entry.                     *)
(*                                                                         *)
(* Units.  Time is counted in quarter seconds, so that the simulation      *)
(* increment of 0.5 s is 2 and a schedule may end between two simulated    *)
(* ticks.  PID quantities (integral term, output) are fixed point: the     *)
(* float 1.0 is PidOne.  Temperatures are whole degrees.                   *)
(***************************************************************************)
EXTENDS Integers, Sequences, FiniteSets, TLC

(***************************************************************************)
(* Bounds of the model.                                                    *)
(***************************************************************************)
\* largest wall-clock time that passes between two clock reads of the loop
MaxDelta == 2
\* largest elapsed time between two PID.compute calls
MaxDt == 2

(***************************************************************************)
(* Program constants and configuration values.                             *)
(***************************************************************************)
\* the clamp limit 1 of sorted([-1, x, 1])[1], in fixed point
PidOne == 2
\* self.runtime += 0.5
SimStep == 2
\* time.sleep(1) of the idle branch
IdleSleep == 4
\* config.sensor_time_wait, the default time_step
time_step == 4
\* config.pid_kp, config.pid_ki, config.pid_kd
pid_kp == 1
pid_ki == 1
pid_kd == 1
\* config.thermocouple_offset
thermocouple_offset == 1
\* config.emergency_shutoff_temp
emergency_shutoff_temp == 5
\* maxtries = 5
maxtries == 5

STATE_IDLE == "IDLE"
STATE_RUNNING == "RUNNING"

\* Python's None for self.profile and for a missing surrounding point
None == << >>

\* Profile.data of the schedules the operator can run: sorted (time, temperature)
ProfileA == << <<0, 1>>, <<4, 5>> >>
ProfileB == << <<0, 4>>, <<3, 1>> >>
Profiles == {ProfileA, ProfileB}

\* startat * 60 of run_profile, in time units: none, inside a schedule, past its end
StartAts == {0, 2, 6}

\* values the thermocouple driver can return
Readings == {0, 2, 4}

\* the value of a local that was never assigned (temp before the first read)
Unbound == -1

VARIABLES
    \* configuration, fixed at construction
    simulate, gpio_available, heater_invert,
    \* Oven fields
    state, profile, start_time, startat, runtime, totaltime, target, heat, pid,
    \* the GPIO output level of config.gpio_heat
    pin,
    \* Oven.run: position, the local pid, the exception that ended the thread
    loop_pc, l_pid, loop_exc,
    \* wall clock: time elapsed since start_time at the loop's latest clock read
    elapsed,
    \* history: the latest increment of runtime, and whether the sensor has shown
    \* an emergency temperature throughout the current RUNNING tick
    last_inc, tick_hot,
    \* TempSensor.temperature
    temperature,
    \* TempSensorReal.run: position, loop index x, locals maxtemp and temp, the
    \* exception that ended the thread
    s_pc, s_x, s_maxtemp, s_temp, s_exc,
    \* history of the sensor: successful reads of the current cycle, the value
    \* published before the current cycle
    s_succ, s_prev,
    \* a run_profile call in progress: position, the arguments profile and startat * 60
    rp_pc, rp_p, rp_m,
    \* a get_state call in progress: position, the dict built so far
    g_pc, snap,
    \* history: the values the session fields have held together since the call
    snap_seen,
    \* a Profile object and its latest query: self.data, the time asked, the
    \* method asked, the results of get_target_temperature and of is_rising
    q_data, q_time, q_op, q_target, q_rising,
    \* a PID object's caller: the latest output of compute, the exception it raised
    p_out, p_exc

ovenVars == <<state, profile, start_time, startat, runtime, totaltime, target, heat, pid, pin>>
confVars == <<simulate, gpio_available, heater_invert>>
loopVars == <<loop_pc, l_pid, loop_exc, elapsed, last_inc, tick_hot>>
sensorVars == <<s_pc, s_x, s_maxtemp, s_temp, s_exc, s_succ, s_prev>>
callVars == <<rp_pc, rp_p, rp_m, g_pc, snap>>
queryVars == <<q_data, q_time, q_op, q_target, q_rising, p_out, p_exc>>
vars == <<confVars, ovenVars, loopVars, temperature, sensorVars, callVars, snap_seen,
          queryVars>>

\* the session fields that get_state reports, as they stand together
SessionTuple == <<runtime, target, state, heat, totaltime>>

\* the dict of get_state before its first entry is evaluated
NoSnapshot ==
    [runtime |-> 0, temperature |-> 0, target |-> 0, state |-> STATE_IDLE, heat |-> 0,
     totaltime |-> 0]

\* history: a get_state call in progress is exposed to the session fields as a
\* step of another thread leaves them
Observe ==
    snap_seen' = IF g_pc \in {"idle", "done"}
                 THEN snap_seen
                 ELSE snap_seen \cup {SessionTuple'}

\* what a step of the control loop, of a command or of the sensor leaves alone:
\* calls in progress in other threads, and objects it does not hold
Elsewhere ==
    /\ UNCHANGED <<callVars, queryVars>>
    /\ Observe

(***************************************************************************)
(* Profile                                                                 *)
(***************************************************************************)
RECURSIVE MaxTime(_, _)
MaxTime(data, i) ==
    IF i > Len(data) THEN 0
    ELSE LET m == MaxTime(data, i + 1)
         IN IF data[i][1] > m THEN data[i][1] ELSE m

\* max([t for (t, x) in self.data])
get_duration(data) == MaxTime(data, 1)

\* the first index i with time < data[i][0], or 0 when the loop ends without a break
RECURSIVE FirstLater(_, _, _)
FirstLater(data, time, i) ==
    IF i > Len(data) THEN 0
    ELSE IF time < data[i][1] THEN i
    ELSE FirstLater(data, time, i + 1)

\* data[i-1] of Python: index -1 is the last element
PyPrev(data, i) == IF i = 1 THEN data[Len(data)] ELSE data[i - 1]

\* (prev_point, next_point)
get_surrounding_points(data, time) ==
    IF time > get_duration(data) THEN <<None, None>>
    ELSE LET i == FirstLater(data, time, 1)
         IN IF i = 0 THEN <<None, None>>
            ELSE <<PyPrev(data, i), data[i]>>

\* [exc |-> the exception raised or "none", val |-> the value returned]
get_target_temperature(data, time) ==
    IF time > get_duration(data) THEN [exc |-> "none", val |-> 0]
    ELSE LET pts == get_surrounding_points(data, time)
             prev_point == pts[1]
             next_point == pts[2]
         IN IF next_point = None THEN [exc |-> "TypeError", val |-> 0]
            ELSE IF next_point[1] = prev_point[1]
                 THEN [exc |-> "ZeroDivisionError", val |-> 0]
            ELSE [exc |-> "none",
                  val |-> prev_point[2]
                          + ((time - prev_point[1]) * (next_point[2] - prev_point[2]))
                            \div (next_point[1] - prev_point[1])]

\* prev_point and next_point: a point is a non-empty list, None is false
is_rising(data, time) ==
    LET pts == get_surrounding_points(data, time)
        prev_point == pts[1]
        next_point == pts[2]
    IN IF prev_point # None /\ next_point # None
       THEN prev_point[2] < next_point[2]
       ELSE FALSE

\* the order of sorted() on [time, temperature] lists
PointLess(a, b) == a[1] < b[1] \/ (a[1] = b[1] /\ a[2] < b[2])

RECURSIVE InsertPoint(_, _)
InsertPoint(x, s) ==
    IF s = << >> THEN <<x>>
    ELSE IF PointLess(x, Head(s)) THEN <<x>> \o s
    ELSE <<Head(s)>> \o InsertPoint(x, Tail(s))

RECURSIVE SortPoints(_)
SortPoints(s) == IF s = << >> THEN << >> ELSE InsertPoint(Head(s), SortPoints(Tail(s)))

\* Profile(json_data).data for obj["data"] = points: no check of the points
Profile(points) == SortPoints(points)

\* obj["data"] of schedules: a ramp, points out of order, a schedule that starts
\* late and falls, three points, and schedules of one point and of none
DataRamp == << <<0, 2>>, <<6, 20>> >>
DataUnsorted == << <<4, 5>>, <<0, 1>> >>
DataLate == << <<2, 5>>, <<4, 1>> >>
DataThree == << <<2, 5>>, <<0, 1>>, <<4, 3>> >>
DataOne == << <<2, 3>> >>
DataEmpty == << >>
Schedules == {DataRamp, DataUnsorted, DataLate, DataThree}

\* times a caller asks a Profile about
QueryTimes == 0..7

(***************************************************************************)
(* PID                                                                     *)
(***************************************************************************)
\* sorted([-1, v, 1])[2]: the largest of the three instead of the middle one
Clamp_Largest(v) == IF v > PidOne THEN v ELSE PidOne

\* sorted([-1, v, 1])[1]
Clamp(v) == IF v < -PidOne THEN -PidOne ELSE IF v > PidOne THEN PidOne ELSE v

\* PID.__init__
PID(ki, kd, kp) == [ki |-> ki, kp |-> kp, kd |-> kd, iterm |-> 0, lastErr |-> 0]

\* PID(ki, kd, kp)
NewPID == [ki |-> pid_ki, kp |-> pid_kp, kd |-> pid_kd, iterm |-> 0, lastErr |-> 0]

\* PID.compute with timeDelta = dt: [exc, pid (the object afterwards), output]
compute(p, setpoint, ispoint, dt) ==
    LET error == setpoint - ispoint
        iterm == Clamp(p.iterm + error * dt * p.ki)
    IN IF dt = 0
       THEN [exc |-> "ZeroDivisionError", pid |-> [p EXCEPT !.iterm = iterm], output |-> 0]
       ELSE LET dErr == (error - p.lastErr) \div dt
                output == Clamp(p.kp * error + iterm + p.kd * dErr)
            IN [exc |-> "none",
                pid |-> [p EXCEPT !.iterm = iterm, !.lastErr = error],
                output |-> output]

(***************************************************************************)
(* Oven: set_heat, reset, run_profile, abort_run                           *)
(***************************************************************************)
\* the GPIO level that drives the heater
PinOn == IF heater_invert THEN 1 ELSE 0
PinOff == 1 - PinOn

\* does set_heat(value) reach one of its time.sleep(self.time_step * value)
SetHeatSleeps(value) ==
    value > 0 /\ (gpio_available => pin = PinOff)

set_heat(value) ==
    IF value > 0
    THEN /\ heat' = 1
         /\ pin' = IF gpio_available
                   THEN IF heater_invert
                        THEN (IF pin = 0 THEN 1 ELSE pin)
                        ELSE (IF pin = 1 THEN 0 ELSE pin)
                   ELSE pin
    ELSE /\ heat' = 0
         /\ pin' = IF gpio_available
                   THEN IF heater_invert
                        THEN (IF pin = 1 THEN 0 ELSE pin)
                        ELSE 1
                   ELSE pin

\* reset that leaves self.runtime as it was
reset_KeepsRuntime ==
    /\ profile' = None
    /\ start_time' = 0
    /\ totaltime' = 0
    /\ target' = 0
    /\ state' = STATE_IDLE
    /\ set_heat(0)
    /\ pid' = NewPID
    /\ UNCHANGED <<startat, runtime>>

\* reset that keeps the PID object of the previous session
reset_KeepsPid ==
    /\ profile' = None
    /\ start_time' = 0
    /\ runtime' = 0
    /\ totaltime' = 0
    /\ target' = 0
    /\ state' = STATE_IDLE
    /\ set_heat(0)
    /\ UNCHANGED <<startat, pid>>

reset ==
    /\ profile' = None
    /\ start_time' = 0
    /\ runtime' = 0
    /\ totaltime' = 0
    /\ target' = 0
    /\ state' = STATE_IDLE
    /\ set_heat(0)
    /\ pid' = NewPID
    /\ UNCHANGED startat

\* run_profile(p, startat = m / 60); start_time = datetime.datetime.now() is a
\* recorded instant (not the 0 of reset), from which elapsed counts
run_profile(p, m) ==
    /\ profile' = p
    /\ totaltime' = get_duration(p)
    /\ state' = STATE_RUNNING
    /\ start_time' = 1
    /\ elapsed' = 0
    /\ startat' = m
    /\ tick_hot' = FALSE
    /\ UNCHANGED <<runtime, target, heat, pid, pin, confVars, loop_pc, l_pid, loop_exc,
                   last_inc, temperature, sensorVars>>
    /\ Elsewhere

\* the operator starts a schedule; a session is started from IDLE
RunProfile ==
    /\ state = STATE_IDLE
    /\ \E p \in Profiles, m \in StartAts : run_profile(p, m)

abort_run ==
    /\ reset
    /\ UNCHANGED <<confVars, loopVars, temperature, sensorVars>>
    /\ Elsewhere

AbortRun == abort_run

(***************************************************************************)
(* Oven.run, one action per statement group of the loop body               *)
(***************************************************************************)
\* self.temp_sensor.temperature + config.thermocouple_offset >= config.emergency_shutoff_temp
Hot == temperature + thermocouple_offset >= emergency_shutoff_temp

\* positions of the loop inside the RUNNING branch
InTick == {"advance", "target", "compute", "emergency", "set_heat", "heat_sleep", "complete"}

\* an uncaught exception ends the thread
Raise(e) ==
    /\ loop_pc' = "dead"
    /\ loop_exc' = e

\* time.sleep(self.time_step * value) inside set_heat
HeatOnTime(value) == (time_step * value) \div PidOne

\* the sleep that ends an iteration: "amount of time to sleep with the heater off"
TailSleep(value) ==
    IF value > 0 THEN (time_step * (PidOne - value)) \div PidOne ELSE time_step

\* if self.state == Oven.STATE_IDLE: ... elif self.state == Oven.STATE_RUNNING:
LoopCheck ==
    /\ loop_pc = "check"
    /\ loop_pc' = IF state = STATE_IDLE THEN "idle" ELSE "advance"
    /\ tick_hot' = (state = STATE_RUNNING /\ Hot)
    /\ UNCHANGED <<confVars, ovenVars, l_pid, loop_exc, elapsed, last_inc, temperature,
                   sensorVars>>
    /\ Elsewhere

\* the idle branch that also drives the heater with the latest PID signal
LoopIdle_Heats ==
    /\ loop_pc = "idle"
    /\ set_heat(l_pid)
    /\ loop_pc' = "idle_tail"
    /\ UNCHANGED <<confVars, state, profile, start_time, startat, runtime, totaltime, target,
                   pid, l_pid, loop_exc, elapsed, last_inc, tick_hot, temperature,
                   sensorVars>>
    /\ Elsewhere

\* time.sleep(1)
LoopIdle ==
    /\ loop_pc = "idle"
    /\ IdleSleep > 0
    /\ loop_pc' = "idle_tail"
    /\ UNCHANGED <<confVars, ovenVars, l_pid, loop_exc, elapsed, last_inc, tick_hot,
                   temperature, sensorVars>>
    /\ Elsewhere

\* the wall-clock runtime without the start offset
WallRuntime_NoOffset(d) == elapsed + d

\* the runtime computed from the wall clock, d time units after the previous read
WallRuntime(d) == IF startat > 0 THEN startat + elapsed + d ELSE elapsed + d

\* advance self.runtime: fixed increment, or wall clock since start_time
LoopAdvance ==
    /\ loop_pc = "advance"
    /\ IF simulate
       THEN /\ runtime' = runtime + SimStep
            /\ last_inc' = SimStep
            /\ loop_pc' = "target"
            /\ UNCHANGED <<elapsed, loop_exc>>
       ELSE IF start_time = 0
       THEN /\ Raise("TypeError")
            /\ UNCHANGED <<runtime, last_inc, elapsed>>
       ELSE \E d \in 1..MaxDelta :
            /\ elapsed' = elapsed + d
            /\ IF startat = Unbound
               THEN /\ Raise("AttributeError")
                    /\ UNCHANGED <<runtime, last_inc>>
               ELSE /\ runtime' = WallRuntime(d)
                    /\ last_inc' = WallRuntime(d) - runtime
                    /\ loop_pc' = "target"
                    /\ UNCHANGED loop_exc
    /\ UNCHANGED <<confVars, state, profile, start_time, startat, totaltime, target, heat,
                   pid, pin, l_pid, tick_hot, temperature, sensorVars>>
    /\ Elsewhere

\* self.target = self.profile.get_target_temperature(self.runtime)
LoopTarget ==
    /\ loop_pc = "target"
    /\ IF profile = None
       THEN /\ Raise("AttributeError")
            /\ UNCHANGED target
       ELSE LET r == get_target_temperature(profile, runtime)
            IN IF r.exc # "none"
               THEN /\ Raise(r.exc)
                    /\ UNCHANGED target
               ELSE /\ target' = r.val
                    /\ loop_pc' = "compute"
                    /\ UNCHANGED loop_exc
    /\ UNCHANGED <<confVars, state, profile, start_time, startat, runtime, totaltime, heat,
                   pid, pin, l_pid, elapsed, last_inc, tick_hot, temperature, sensorVars>>
    /\ Elsewhere

\* pid = self.pid.compute(self.target, temperature + offset); two compute calls
\* are a positive time apart
LoopCompute ==
    /\ loop_pc = "compute"
    /\ \E dt \in 1..MaxDt :
         LET r == compute(pid, target, temperature + thermocouple_offset, dt)
         IN /\ pid' = r.pid
            /\ IF r.exc # "none"
               THEN /\ Raise(r.exc)
                    /\ UNCHANGED l_pid
               ELSE /\ l_pid' = r.output
                    /\ loop_pc' = "emergency"
                    /\ UNCHANGED loop_exc
    /\ UNCHANGED <<confVars, state, profile, start_time, startat, runtime, totaltime, target,
                   heat, pin, elapsed, last_inc, tick_hot, temperature, sensorVars>>
    /\ Elsewhere

\* if we are WAY TOO HOT, shut down
LoopEmergency ==
    /\ loop_pc = "emergency"
    /\ IF Hot THEN reset ELSE UNCHANGED ovenVars
    /\ loop_pc' = "set_heat"
    /\ UNCHANGED <<confVars, l_pid, loop_exc, elapsed, last_inc, tick_hot, temperature,
                   sensorVars>>
    /\ Elsewhere

\* self.set_heat(pid), up to its sleep
LoopSetHeat ==
    /\ loop_pc = "set_heat"
    /\ set_heat(l_pid)
    /\ loop_pc' = IF SetHeatSleeps(l_pid) /\ HeatOnTime(l_pid) > 0
                  THEN "heat_sleep" ELSE "complete"
    /\ UNCHANGED <<confVars, state, profile, start_time, startat, runtime, totaltime, target,
                   pid, l_pid, loop_exc, elapsed, last_inc, tick_hot, temperature,
                   sensorVars>>
    /\ Elsewhere

\* set_heat returns from time.sleep(self.time_step * value)
LoopHeatSleep ==
    /\ loop_pc = "heat_sleep"
    /\ loop_pc' = "complete"
    /\ UNCHANGED <<confVars, ovenVars, l_pid, loop_exc, elapsed, last_inc, tick_hot,
                   temperature, sensorVars>>
    /\ Elsewhere

\* the completion check without its reset
LoopComplete_NoReset ==
    /\ loop_pc = "complete"
    /\ loop_pc' = "tail"
    /\ UNCHANGED <<confVars, ovenVars, l_pid, loop_exc, elapsed, last_inc, tick_hot,
                   temperature, sensorVars>>
    /\ Elsewhere

\* if self.runtime > self.totaltime: self.reset()
LoopComplete ==
    /\ loop_pc = "complete"
    /\ IF runtime > totaltime THEN reset ELSE UNCHANGED ovenVars
    /\ loop_pc' = "tail"
    /\ UNCHANGED <<confVars, l_pid, loop_exc, elapsed, last_inc, tick_hot, temperature,
                   sensorVars>>
    /\ Elsewhere

\* if pid > 0: time.sleep(self.time_step * (1 - pid)) else: time.sleep(self.time_step)
LoopTail ==
    /\ loop_pc \in {"tail", "idle_tail"}
    /\ TailSleep(l_pid) >= 0
    /\ loop_pc' = "check"
    /\ tick_hot' = FALSE
    /\ UNCHANGED <<confVars, ovenVars, l_pid, loop_exc, elapsed, last_inc, temperature,
                   sensorVars>>
    /\ Elsewhere

LoopStep ==
    \/ LoopCheck
    \/ LoopIdle
    \/ LoopAdvance
    \/ LoopTarget
    \/ LoopCompute
    \/ LoopEmergency
    \/ LoopSetHeat
    \/ LoopHeatSleep
    \/ LoopComplete
    \/ LoopTail

(***************************************************************************)
(* The sensor as the control loop sees it: self.temperature = ...          *)
(***************************************************************************)
Publish(t) ==
    /\ temperature' = t
    /\ tick_hot' = IF loop_pc \in InTick
                   THEN tick_hot /\ (t + thermocouple_offset >= emergency_shutoff_temp)
                   ELSE tick_hot
    /\ UNCHANGED <<confVars, ovenVars, loop_pc, l_pid, loop_exc, elapsed, last_inc,
                   sensorVars>>
    /\ Elsewhere

SensorPublish == \E t \in Readings : Publish(t)

(***************************************************************************)
(* The state after Oven.__init__                                           *)
(***************************************************************************)
Init ==
    /\ simulate \in BOOLEAN
    /\ gpio_available \in BOOLEAN
    /\ heater_invert \in (IF gpio_available THEN BOOLEAN ELSE {FALSE})
    /\ state = STATE_IDLE
    /\ profile = None
    /\ start_time = 0
    /\ startat = Unbound
    /\ runtime = 0
    /\ totaltime = 0
    /\ target = 0
    /\ heat = 0
    /\ pid = NewPID
    /\ pin = IF gpio_available /\ ~heater_invert THEN 1 ELSE 0
    /\ loop_pc = "check"
    /\ l_pid = 0
    /\ loop_exc = "none"
    /\ elapsed = 0
    /\ last_inc = 0
    /\ tick_hot = FALSE
    /\ temperature = 0
    /\ s_pc = "cycle"
    /\ s_x = 0
    /\ s_maxtemp = 0
    /\ s_temp = Unbound
    /\ s_exc = "none"
    /\ s_succ = {}
    /\ s_prev = 0
    /\ rp_pc = "idle"
    /\ rp_p = None
    /\ rp_m = 0
    /\ g_pc = "idle"
    /\ snap = NoSnapshot
    /\ snap_seen = {}
    /\ q_data = None
    /\ q_time = 0
    /\ q_op = "none"
    /\ q_target = [exc |-> "none", val |-> 0]
    /\ q_rising = FALSE
    /\ p_out = 0
    /\ p_exc = "none"

(***************************************************************************)
(* A Profile object and its callers                                        *)
(***************************************************************************)
\* Profile(json_data) of a schedule with at least two points at distinct times
ProfileConstruct ==
    /\ \E points \in Schedules : q_data' = Profile(points)
    /\ q_op' = "none"
    /\ UNCHANGED <<q_time, q_target, q_rising>>
    /\ UNCHANGED <<confVars, ovenVars, loopVars, temperature, sensorVars, callVars,
                   snap_seen, p_out, p_exc>>

\* profile.get_target_temperature(time)
QueryTarget ==
    /\ q_data # None
    /\ \E time \in QueryTimes :
         /\ q_time' = time
         /\ q_target' = get_target_temperature(q_data, time)
    /\ q_op' = "target"
    /\ UNCHANGED <<q_data, q_rising>>
    /\ UNCHANGED <<confVars, ovenVars, loopVars, temperature, sensorVars, callVars,
                   snap_seen, p_out, p_exc>>

\* profile.is_rising(time)
QueryRising ==
    /\ q_data # None
    /\ \E time \in QueryTimes :
         /\ q_time' = time
         /\ q_rising' = is_rising(q_data, time)
    /\ q_op' = "rising"
    /\ UNCHANGED <<q_data, q_target>>
    /\ UNCHANGED <<confVars, ovenVars, loopVars, temperature, sensorVars, callVars,
                   snap_seen, p_out, p_exc>>

ProfileNext ==
    \/ ProfileConstruct
    \/ QueryTarget
    \/ QueryRising

\* Profile objects alone: any schedule, any query
ProfileSpec == Init /\ [][ProfileNext]_vars

(***************************************************************************)
(* A PID object and its caller                                             *)
(***************************************************************************)
\* gains of config, setpoints and measured values, and the time between two
\* calls of compute as the system clock gives it: set back, unchanged, advanced
Gains == 0..2
Setpoints == 0..3
Ispoints == 0..3
TimeDeltas == -1..MaxDt

\* PID(ki = ..., kd = ..., kp = ...)
PidConstruct ==
    /\ \E ki \in Gains, kd \in Gains, kp \in Gains : pid' = PID(ki, kd, kp)
    /\ p_out' = 0
    /\ p_exc' = "none"
    /\ UNCHANGED <<state, profile, start_time, startat, runtime, totaltime, target, heat,
                   pin>>
    /\ UNCHANGED <<confVars, loopVars, temperature, sensorVars, callVars, snap_seen,
                   q_data, q_time, q_op, q_target, q_rising>>

\* output = pid.compute(setpoint, ispoint), timeDelta after the previous call
PidCompute ==
    /\ p_exc = "none"
    /\ \E setpoint \in Setpoints, ispoint \in Ispoints, dt \in TimeDeltas :
         LET r == compute(pid, setpoint, ispoint, dt)
         IN /\ pid' = r.pid
            /\ p_exc' = r.exc
            /\ p_out' = IF r.exc = "none" THEN r.output ELSE p_out
    /\ UNCHANGED <<state, profile, start_time, startat, runtime, totaltime, target, heat,
                   pin>>
    /\ UNCHANGED <<confVars, loopVars, temperature, sensorVars, callVars, snap_seen,
                   q_data, q_time, q_op, q_target, q_rising>>

PidNext ==
    \/ PidConstruct
    \/ PidCompute

\* PID objects alone: any gains, any sequence of compute calls
PidSpec == Init /\ [][PidNext]_vars

(***************************************************************************)
(* Oven.run_profile statement by statement, as the caller's thread runs it *)
(* beside the control loop                                                 *)
(***************************************************************************)
\* what a statement of run_profile leaves alone
RunProfileFrame ==
    /\ UNCHANGED <<confVars, temperature, sensorVars, g_pc, snap, queryVars>>
    /\ UNCHANGED <<loop_pc, l_pid, loop_exc, last_inc>>
    /\ UNCHANGED <<runtime, target, heat, pid, pin>>
    /\ Observe

\* run_profile(p, startat = m / 60) is called on an IDLE session: self.profile = profile
RunProfileCall ==
    /\ rp_pc = "idle"
    /\ state = STATE_IDLE
    /\ \E p \in Profiles, m \in StartAts :
         /\ rp_p' = p
         /\ rp_m' = m
         /\ profile' = p
    /\ rp_pc' = "totaltime"
    /\ UNCHANGED <<state, start_time, startat, totaltime, elapsed, tick_hot>>
    /\ RunProfileFrame

\* self.totaltime = profile.get_duration()
RunProfileTotaltime ==
    /\ rp_pc = "totaltime"
    /\ totaltime' = get_duration(rp_p)
    /\ rp_pc' = "state"
    /\ UNCHANGED <<state, profile, start_time, startat, elapsed, tick_hot, rp_p, rp_m>>
    /\ RunProfileFrame

\* self.state = Oven.STATE_RUNNING
RunProfileState ==
    /\ rp_pc = "state"
    /\ state' = STATE_RUNNING
    /\ tick_hot' = FALSE
    /\ rp_pc' = "start_time"
    /\ UNCHANGED <<profile, start_time, startat, totaltime, elapsed, rp_p, rp_m>>
    /\ RunProfileFrame

\* self.start_time = datetime.datetime.now()
RunProfileStartTime ==
    /\ rp_pc = "start_time"
    /\ start_time' = 1
    /\ elapsed' = 0
    /\ rp_pc' = "startat"
    /\ UNCHANGED <<state, profile, startat, totaltime, tick_hot, rp_p, rp_m>>
    /\ RunProfileFrame

\* self.startat = startat * 60
RunProfileStartat ==
    /\ rp_pc = "startat"
    /\ startat' = rp_m
    /\ rp_pc' = "idle"
    /\ UNCHANGED <<state, profile, start_time, totaltime, elapsed, tick_hot, rp_p, rp_m>>
    /\ RunProfileFrame

RunProfileStep ==
    \/ RunProfileCall
    \/ RunProfileTotaltime
    \/ RunProfileState
    \/ RunProfileStartTime
    \/ RunProfileStartat

(***************************************************************************)
(* Oven.get_state, called from a thread of its own: the dict entries are   *)
(* evaluated one after the other, nothing is locked                        *)
(***************************************************************************)
\* the keys of the dict in the order of their evaluation
StateKeys == <<"runtime", "temperature", "target", "state", "heat", "totaltime">>

KeyIndex(k) == CHOOSE i \in 1..Len(StateKeys) : StateKeys[i] = k

\* the expression evaluated for key k
StateEntry(k) ==
    CASE k = "runtime" -> runtime
      [] k = "temperature" -> temperature + thermocouple_offset
      [] k = "target" -> target
      [] k = "state" -> state
      [] k = "heat" -> heat
      [] k = "totaltime" -> totaltime

\* an external caller enters get_state
GetStateCall ==
    /\ g_pc \in {"idle", "done"}
    /\ g_pc' = StateKeys[1]
    /\ snap' = NoSnapshot
    /\ snap_seen' = {SessionTuple}
    /\ UNCHANGED <<confVars, ovenVars, loopVars, temperature, sensorVars, rp_pc, rp_p, rp_m,
                   queryVars>>

\* one entry of state = {...} is evaluated; after the last one, return state
GetStateEntry ==
    /\ g_pc \notin {"idle", "done"}
    /\ snap' = [snap EXCEPT ![g_pc] = StateEntry(g_pc)]
    /\ g_pc' = IF KeyIndex(g_pc) = Len(StateKeys) THEN "done"
               ELSE StateKeys[KeyIndex(g_pc) + 1]
    /\ UNCHANGED <<confVars, ovenVars, loopVars, temperature, sensorVars, rp_pc, rp_p, rp_m,
                   snap_seen, queryVars>>

GetState ==
    \/ GetStateCall
    \/ GetStateEntry

(***************************************************************************)
(* TempSensorReal.run                                                      *)
(***************************************************************************)
\* while True: maxtries = 5; sleeptime = ...; maxtemp = 0; for x in range(0, maxtries)
SensorBegin ==
    /\ s_pc = "cycle"
    /\ s_maxtemp' = 0
    /\ s_x' = 0
    /\ s_pc' = "read"
    /\ s_succ' = {}
    /\ s_prev' = temperature
    /\ UNCHANGED <<confVars, ovenVars, loopVars, temperature, s_temp, s_exc>>
    /\ Elsewhere

\* the value of temp after try: temp = self.thermocouple.get() except Exception: log
TempAfterRead(ok, v) == IF ok THEN v ELSE s_temp

\* one pass of the for body: the read (ok: it returned v; otherwise it raised),
\* if temp > maxtemp: maxtemp = temp, time.sleep(sleeptime)
SensorAttempt ==
    /\ s_pc = "read"
    /\ \E ok \in BOOLEAN, v \in Readings :
         LET temp == TempAfterRead(ok, v)
         IN /\ s_temp' = temp
            /\ s_succ' = IF ok THEN s_succ \cup {v} ELSE s_succ
            /\ IF temp = Unbound
               THEN /\ s_pc' = "dead"
                    /\ s_exc' = "UnboundLocalError"
                    /\ UNCHANGED <<s_maxtemp, s_x>>
               ELSE /\ s_maxtemp' = IF temp > s_maxtemp THEN temp ELSE s_maxtemp
                    /\ s_x' = s_x + 1
                    /\ s_pc' = IF s_x + 1 = maxtries THEN "publish" ELSE "read"
                    /\ UNCHANGED s_exc
    /\ UNCHANGED <<confVars, ovenVars, loopVars, temperature, s_prev>>
    /\ Elsewhere

\* self.temperature = maxtemp
SensorEnd ==
    /\ s_pc = "publish"
    /\ temperature' = s_maxtemp
    /\ s_pc' = "cycle"
    /\ UNCHANGED <<confVars, ovenVars, loopVars, s_x, s_maxtemp, s_temp, s_exc, s_succ,
                   s_prev>>
    /\ Elsewhere

SensorNext ==
    \/ SensorBegin
    \/ SensorAttempt
    \/ SensorEnd

\* the real sensor's thread alone
SensorSpec == Init /\ [][SensorNext]_vars

(***************************************************************************)
(* End to end: simulation mode, the simulated sensor below the emergency   *)
(* threshold, schedules started by the operator and never aborted.         *)
(***************************************************************************)
SimInit == Init /\ simulate

SimPublish ==
    \E t \in {r \in Readings : r + thermocouple_offset < emergency_shutoff_temp} : Publish(t)

E2ENext ==
    \/ LoopStep
    \/ RunProfile
    \/ SimPublish

\* the control loop is a thread of its own: it is scheduled again and again
E2ESpec == SimInit /\ [][E2ENext]_vars /\ WF_vars(LoopStep)

Next ==
    \/ LoopStep
    \/ RunProfile
    \/ AbortRun
    \/ SensorPublish

Spec == Init /\ [][Next]_vars

(***************************************************************************)
(* A schedule left to run: the operator starts schedules and never aborts, *)
(* in either mode and with any sensor reading.                             *)
(***************************************************************************)
UnattendedNext ==
    \/ LoopStep
    \/ RunProfile
    \/ SensorPublish

UnattendedSpec == Init /\ [][UnattendedNext]_vars

\* every command and every sensor reading, in simulation mode
SimSpec == SimInit /\ [][Next]_vars

(***************************************************************************)
(* A status reader beside the control loop: simulation mode without GPIO,   *)
(* schedules started by the operator, get_state called at any time.        *)
(***************************************************************************)
ReaderInit == SimInit /\ ~gpio_available

ReaderNext ==
    \/ LoopStep
    \/ RunProfile
    \/ SimPublish
    \/ GetState

ReaderSpec == ReaderInit /\ [][ReaderNext]_vars

(***************************************************************************)
(* Schedules as they arrive: the operator builds a Profile from schedule    *)
(* data of any length and runs it.                                         *)
(***************************************************************************)
IntakeData == {DataUnsorted, DataOne, DataEmpty}

\* oven.run_profile(Profile(json_data)); with no point at all, max([]) of
\* get_duration raises ValueError after self.profile = profile
RunSchedule ==
    /\ state = STATE_IDLE
    /\ \E points \in IntakeData :
         LET p == Profile(points)
         IN IF Len(p) = 0
            THEN /\ profile' = p
                 /\ UNCHANGED <<state, start_time, startat, runtime, totaltime, target,
                                heat, pid, pin>>
                 /\ UNCHANGED <<confVars, loopVars, temperature, sensorVars>>
                 /\ Elsewhere
            ELSE run_profile(p, 0)

IntakeNext ==
    \/ LoopStep
    \/ RunSchedule
    \/ SimPublish

IntakeSpec == Init /\ [][IntakeNext]_vars

(***************************************************************************)
(* Abort at any time: both modes, the sensor below the emergency           *)
(* threshold, so that the control loop resets at schedule completion only. *)
(***************************************************************************)
AbortNext ==
    \/ LoopStep
    \/ RunProfile
    \/ AbortRun
    \/ SimPublish

AbortSpec == Init /\ [][AbortNext]_vars

(***************************************************************************)
(* run_profile beside the control loop: both modes, any sensor reading,    *)
(* the statements of run_profile interleaved with the steps of the loop.   *)
(***************************************************************************)
RaceNext ==
    \/ LoopStep
    \/ RunProfileStep
    \/ SensorPublish

RaceSpec == Init /\ [][RaceNext]_vars

(***************************************************************************)
(* Claims                                                                  *)
(***************************************************************************)
\* the tick has ended: the loop is in its closing sleep, or the thread is gone
TickEnded == loop_pc \in {"tail", "dead"}

\* C1: a RUNNING tick during which the sensor reads at or above the emergency
\* threshold (reading plus offset) ends with the session IDLE, at any runtime
C1_EmergencyShutoff ==
    (TickEnded /\ tick_hot) => state = STATE_IDLE

\* C2: at the end of a loop iteration, and between iterations, an IDLE session
\* has the heater off
C2_HeaterOffInIdle ==
    (loop_pc \in {"check", "tail", "idle_tail"} /\ state = STATE_IDLE) => heat = 0

\* C3: in simulation mode without abort and without emergency the control loop
\* never dies on a tick (so that a started schedule can reach IDLE)
C3_LoopNeverDies == loop_pc # "dead"

C6_TimeProportioning ==
    (/\ loop_pc = "tail"
     /\ state = STATE_RUNNING
     /\ 0 < l_pid
     /\ l_pid < PidOne
     /\ TailSleep(l_pid) > 0) => heat = 0

\* a step that calls reset(): abort_run, the emergency shutoff, schedule completion
ResetCalled ==
    \/ AbortRun
    \/ (LoopEmergency /\ Hot)
    \/ (LoopComplete /\ runtime > totaltime)

ResetPost ==
    /\ state = STATE_IDLE
    /\ profile = None
    /\ runtime = 0
    /\ target = 0
    /\ heat = 0
    /\ (gpio_available => pin = PinOff)
    /\ pid = NewPID

\* C7: when reset() / abort_run() returns, the state is IDLE, the profile is
\* cleared, runtime and target are 0, the heater is off and the PID is fresh
C7_ResetPostcondition == [][ResetCalled => ResetPost']_vars

\* C7 witness: reset has just returned inside a RUNNING tick that had computed a
\* nonzero PID signal
C7_Witness ==
    /\ loop_pc = "set_heat"
    /\ tick_hot
    /\ l_pid # 0
    /\ ResetPost

SetMax(S) == CHOOSE m \in S : \A y \in S : y <= m

\* a refresh cycle has just published
CyclePublished == s_pc = "cycle" /\ s_x = maxtries

\* C8: after a cycle with at least one successful read the published
\* temperature is the maximum of that cycle's successful reads
C8_MaxOfSuccesses ==
    (CyclePublished /\ s_succ # {}) => temperature = SetMax(s_succ)

\* C9: after a cycle in which every read failed the published temperature is
\* the one published before the cycle
C9_StaleFallback ==
    (CyclePublished /\ s_succ = {}) => temperature = s_prev

\* C10: no sequence of read failures ends the sensor's refresh loop
C10_SensorLoopResilient == s_pc # "dead"

\* the index j of the segment (data[j], data[j+1]) that bounds time: the one
\* with data[j] at or before time and data[j+1] after it, the last segment at
\* the duration itself; 0 when there is none
BoundingSegment(data, time) ==
    LET S == {j \in 1..(Len(data) - 1) :
                /\ data[j][1] <= time
                /\ \/ time < data[j + 1][1]
                   \/ (j + 1 = Len(data) /\ time = data[j + 1][1])}
    IN IF S = {} THEN 0 ELSE CHOOSE j \in S : \A k \in S : j <= k

\* T0 + (t - t0) * (T1 - T0) / (t1 - t0) on segment j
Interpolation(data, j, time) ==
    data[j][2] + ((time - data[j][1]) * (data[j + 1][2] - data[j][2]))
                 \div (data[j + 1][1] - data[j][1])

\* C11: for a profile of two or more points at distinct times, the target at a
\* time from the first point's time up to and including the duration is the
\* linear interpolation on the bounding segment, the target beyond the duration
\* is 0, and the lookup raises nothing in that range
C11_TargetTemperature ==
    (q_op = "target" /\ q_time >= q_data[1][1]) =>
        /\ q_target.exc = "none"
        /\ q_target.val = IF q_time > get_duration(q_data) THEN 0
                          ELSE Interpolation(q_data, BoundingSegment(q_data, q_time),
                                             q_time)

\* C17: is_rising(t) is true exactly when t has a bounding segment
\* t0 <= t < t1 on consecutive points with T0 < T1; it is false at and after
\* the duration and for a t without bounding segment, such as a t earlier than
\* the first point's time
C17_IsRising ==
    q_op = "rising" =>
        (q_rising <=> \E j \in 1..(Len(q_data) - 1) :
                        /\ q_data[j][1] <= q_time
                        /\ q_time < q_data[j + 1][1]
                        /\ q_data[j][2] < q_data[j + 1][2])

\* C12: after any sequence of compute calls the integral term lies in [-1, 1]
\* and every output returned lies in [-1, 1]
C12_PidBounds ==
    /\ pid.iterm \in -PidOne..PidOne
    /\ p_out \in -PidOne..PidOne

\* C12 witness: with kd = 0 the sum kp * error + iterm exceeded 1 and compute
\* returned 1
C12_Witness ==
    /\ p_exc = "none"
    /\ pid.kd = 0
    /\ pid.kp * pid.lastErr + pid.iterm > PidOne
    /\ p_out = PidOne

\* C15: compute raises no exception, whatever the time since the previous call
\* (zero and negative included) and whatever the gains (kd = 0 included)
C15_DegenerateDt == p_exc = "none"

\* C13: the snapshot that get_state returns equals the values that runtime,
\* target, state, heat and totaltime held together at one instant between the
\* call and the return
C13_SnapshotConsistent ==
    g_pc = "done" =>
        <<snap.runtime, snap.target, snap.state, snap.heat, snap.totaltime>> \in snap_seen

\* run_profile(profile, startat) called on an IDLE session leaves it RUNNING with
\* totaltime the profile's duration and the start offset startat * 60
RunProfilePost ==
    \A p \in Profiles, m \in StartAts :
        (state = STATE_IDLE /\ run_profile(p, m)) =>
            (state' = STATE_RUNNING /\ totaltime' = get_duration(p) /\ startat' = m)

\* a tick of a RUNNING session has advanced the runtime
TickAdvanced == LoopAdvance /\ state = STATE_RUNNING /\ loop_pc' = "target"

\* C14: after run_profile(profile, start_at_minutes = m) from IDLE the session is
\* RUNNING with total_time the duration and start offset m * 60, and every tick
\* of the session computes a runtime of at least m * 60, in simulation mode as
\* well as in wall-clock mode
C14_StartOffset ==
    [][RunProfilePost /\ (TickAdvanced => runtime' >= startat)]_vars

\* C14 amended: the same, the bound on the runtime in wall-clock mode only
C14_StartOffsetWallClock ==
    [][RunProfilePost /\ ((TickAdvanced /\ ~simulate) => runtime' >= startat)]_vars

\* C14 witness: a wall-clock tick of a session started with a positive offset
\* has computed its runtime, the offset plus the time elapsed
C14_Witness ==
    /\ ~simulate
    /\ loop_pc = "target"
    /\ state = STATE_RUNNING
    /\ startat > 0
    /\ last_inc > 0
    /\ runtime = startat + elapsed

\* C16: the controller is never RUNNING with a profile of fewer than two points
\* (the construction of such a Profile fails)
C16_InvalidProfileNeverRuns ==
    (state = STATE_RUNNING /\ profile # None) => Len(profile) >= 2

\* a step of a loop iteration that observes IDLE: the check, the sleep of the
\* idle branch, the sleep that ends the iteration
IdleIteration ==
    \/ (LoopCheck /\ state = STATE_IDLE)
    \/ LoopIdle
    \/ (LoopTail /\ loop_pc = "idle_tail")

\* C18: a loop iteration that observes IDLE leaves state, profile, runtime,
\* totaltime, target, heat, the PID object and the heater pin as they are, and
\* the state goes from IDLE to RUNNING by run_profile only
C18_IdleTickFrame ==
    [][/\ IdleIteration =>
            UNCHANGED <<state, profile, runtime, totaltime, target, heat, pid, pin>>
       /\ (state = STATE_IDLE /\ state' = STATE_RUNNING) => RunProfile]_vars

\* C18 witness: an idle iteration has slept while the loop still held a positive
\* PID signal of the session before, and the heater is off
C18_Witness ==
    /\ loop_pc = "idle_tail"
    /\ state = STATE_IDLE
    /\ l_pid > 0
    /\ heat = 0

\* C19: with reset() / abort_run() executed by another thread at any point of
\* a RUNNING tick, the control loop never fails on the cleared profile, and a
\* tick that ends with the session IDLE ends with the heater off, runtime 0
\* and target 0
C19_AbortDuringTick ==
    /\ loop_exc # "AttributeError"
    /\ (loop_pc = "tail" /\ state = STATE_IDLE) =>
           (heat = 0 /\ runtime = 0 /\ target = 0)

\* C20: when the control loop has observed RUNNING and starts a tick, the
\* profile, totaltime, start_time (an instant, not the 0 of reset) and the start
\* offset of that run_profile are set, and the loop never fails on an unset
\* start offset
C20_PublicationOrder ==
    /\ loop_pc = "advance" =>
           /\ profile # None
           /\ totaltime = get_duration(profile)
           /\ start_time # 0
           /\ startat # Unbound
           /\ rp_pc \notin {"start_time", "startat"}
    /\ loop_exc # "AttributeError"

TypeOK ==
    /\ state \in {STATE_IDLE, STATE_RUNNING}
    /\ profile \in Profiles \cup {None}
    /\ heat \in {0, 1}
    /\ pin \in {0, 1}
    /\ l_pid \in -PidOne..PidOne
    /\ pid.iterm \in -PidOne..PidOne
    /\ temperature \in Readings
====
